---- MODULE Spec2Model ----
(***************************************************************************)
(* A model of socket2's Windows backend (src/src/sys/windows.rs) and of    *)
(* the byte-order helpers of src/src/lib.rs.                               *)
(*                                                                         *)
(* Integers wider than TLC's are kept as little-endian sequences of        *)
(* base-256 digits of the type's true width: a DWORD is 4 digits, a u64 is *)
(* 8 digits.  On the (little-endian) Windows targets the digits of a value *)
(* are also its bytes in memory, in address order.                         *)
(***************************************************************************)
EXTENDS Integers, Sequences, FiniteSets, TLC

VARIABLES
    sockopts,   \* kernel: option (level, name) -> value stored for the socket
    tset,       \* history: option -> argument of its last successful setter
    taken,      \* history: what take_error returned since an error last arose
    sockaddr,   \* the socket address to convert, if any
    rawaddr,    \* the raw address addr2raw last produced, if any
    rxq,        \* kernel: the bytes received and not yet consumed
    rxnext,     \* kernel: the next byte of the incoming stream
    rxbuf,      \* the bytes the last receive wrote to the caller's buffer
    hist,       \* history: what the latest consecutive successful peeks read
    handles,    \* every owning value created: its type, descriptor and fate
    descs,      \* kernel: every descriptor handed out, in order of creation
    objs,       \* kernel: every underlying socket, in order of creation
    initRuns,   \* how often the body of init's Once has run
    once,       \* the state of init's Once
    pc,         \* thread -> where it is in Socket::new
    last,       \* the last operation: its name, argument and return value
    calls       \* the OS calls the last operation issued, in order

vars ==
    <<sockopts, tset, taken, sockaddr, rawaddr, rxq, rxnext, rxbuf, hist,
      handles, descs, objs, initRuns, once, pc, last, calls>>
optVars == <<sockopts, tset, taken>>
addrVars == <<sockaddr, rawaddr>>
ioVars == <<rxq, rxnext, rxbuf, hist>>
lifeVars == <<handles, descs, objs, initRuns>>
thrVars == <<once, pc>>
\* everything but last and calls, and everything but one group
stateVars == <<optVars, addrVars, ioVars, lifeVars, thrVars>>
notOptVars == <<addrVars, ioVars, lifeVars, thrVars>>
notAddrVars == <<optVars, ioVars, lifeVars, thrVars>>
notIoVars == <<optVars, addrVars, lifeVars, thrVars>>
notLifeVars == <<optVars, addrVars, ioVars, thrVars>>
notThrVars == <<optVars, addrVars, ioVars>>

----------------------------------------------------------------------------
(* Results: io::Result<T>, and a panic (an assertion failure) beside it.   *)

Ok(v) == [tag |-> "Ok", val |-> v]
Err(e) == [tag |-> "Err", err |-> e]
Panic == [tag |-> "Panic"]

\* io::Error::new(io::ErrorKind::InvalidInput, ..)
InvalidInput == [kind |-> "InvalidInput", code |-> 0]
\* io::Error::from_raw_os_error(WSAGetLastError())
last_error(code) == [kind |-> "Os", code |-> code]

None == [some |-> FALSE]
Some(v) == [some |-> TRUE, val |-> v]

Unit == "()"

----------------------------------------------------------------------------
(* Fixed-width unsigned arithmetic on little-endian base-256 digits.       *)

Base == 2 ^ 8

RECURSIVE ToDigits(_, _)
ToDigits(v, n) ==
    IF n = 0 THEN <<>> ELSE <<v % Base>> \o ToDigits(v \div Base, n - 1)

Zeros(n) == [i \in 1..n |-> 0]
Ones(n) == [i \in 1..n |-> Base - 1]
IsZero(x) == \A i \in 1..Len(x) : x[i] = 0

\* x * k for a small k: the low Len(x) digits and what was carried out
RECURSIVE MulSmall(_, _, _)
MulSmall(x, k, c) ==
    IF x = <<>> THEN [digits |-> <<>>, carry |-> c]
    ELSE LET t == Head(x) * k + c
             r == MulSmall(Tail(x), k, t \div Base)
         IN  [digits |-> <<t % Base>> \o r.digits, carry |-> r.carry]

\* x + k for a small k: the low Len(x) digits and what was carried out
RECURSIVE AddSmall(_, _)
AddSmall(x, k) ==
    IF x = <<>> THEN [digits |-> <<>>, carry |-> k]
    ELSE LET t == Head(x) + k
             r == AddSmall(Tail(x), t \div Base)
         IN  [digits |-> <<t % Base>> \o r.digits, carry |-> r.carry]

\* x - k for a small k <= Base: the low Len(x) digits and the final borrow
RECURSIVE SubSmall(_, _)
SubSmall(x, k) ==
    IF x = <<>> THEN [digits |-> <<>>, borrow |-> k]
    ELSE LET t == Head(x) - k
             b == IF t < 0 THEN 1 ELSE 0
             r == SubSmall(Tail(x), b)
         IN  [digits |-> <<t + b * Base>> \o r.digits, borrow |-> r.borrow]

\* x / k and x % k for a small k, from the most significant digit down
RECURSIVE DivSmall(_, _, _)
DivSmall(x, k, r) ==
    IF x = <<>> THEN [digits |-> <<>>, rem |-> r]
    ELSE LET n == Len(x)
             t == r * Base + x[n]
             rest == DivSmall(SubSeq(x, 1, n - 1), k, t % k)
         IN  [digits |-> Append(rest.digits, t \div k), rem |-> rest.rem]

\* `x as T` between unsigned widths: zero-extend or truncate to n digits
Cast(x, n) == [i \in 1..n |-> IF i <= Len(x) THEN x[i] ELSE 0]

\* x > the largest n-digit value, for x wider than n digits
Exceeds(x, n) == \E i \in (n + 1)..Len(x) : x[i] # 0

U64Bytes == 8
DwordBytes == 4

\* u64::checked_mul / u64::checked_add with a small right operand
checked_mul(x, k) ==
    LET r == MulSmall(x, k, 0)
    IN  IF r.carry = 0 THEN Some(r.digits) ELSE None

checked_add(x, k) ==
    LET r == AddSmall(x, k)
    IN  IF r.carry = 0 THEN Some(r.digits) ELSE None

\* Option::and_then
and_then(o, F(_)) == IF o.some THEN F(o.val) ELSE None

----------------------------------------------------------------------------
(* Durations and the timeout encodings.                                    *)

\* std::time::Duration: (u64 seconds, u32 nanoseconds below one second)
Duration(secs, nanos) == [secs |-> secs, nanos |-> nanos]
as_secs(d) == d.secs
subsec_nanos(d) == d.nanos

INFINITE == Ones(DwordBytes)

dur2ms_overflow_err(dur) ==
    IF ~dur.some THEN Ok(Zeros(DwordBytes))
    ELSE LET d == dur.val
             Add1(ms) == checked_add(ms, subsec_nanos(d) \div 1000000)
             Add2(ms) == checked_add(ms,
                 IF subsec_nanos(d) % 1000000 > 0 THEN 1 ELSE 0)
             o == and_then(and_then(checked_mul(as_secs(d), 1000), Add1), Add2)
         IN  IF ~o.some \/ IsZero(o.val) THEN Err(InvalidInput)
             ELSE IF Exceeds(o.val, DwordBytes) THEN Ok(INFINITE)
             ELSE Ok(Cast(o.val, DwordBytes))

dur2ms_zeroaccepted(dur) ==
    IF ~dur.some THEN Ok(Zeros(DwordBytes))
    ELSE LET d == dur.val
             Add1(ms) == checked_add(ms, subsec_nanos(d) \div 1000000)
             Add2(ms) == checked_add(ms,
                 IF subsec_nanos(d) % 1000000 > 0 THEN 1 ELSE 0)
             o == and_then(and_then(checked_mul(as_secs(d), 1000), Add1), Add2)
             ms == IF ~o.some THEN INFINITE
                   ELSE IF Exceeds(o.val, DwordBytes) THEN INFINITE
                   ELSE Cast(o.val, DwordBytes)
         IN  Ok(ms)

dur2ms(dur) ==
    IF ~dur.some THEN Ok(Zeros(DwordBytes))
    ELSE LET d == dur.val
             Add1(ms) == checked_add(ms, subsec_nanos(d) \div 1000000)
             Add2(ms) == checked_add(ms,
                 IF subsec_nanos(d) % 1000000 > 0 THEN 1 ELSE 0)
             o == and_then(and_then(checked_mul(as_secs(d), 1000), Add1), Add2)
             ms == IF ~o.some THEN INFINITE
                   ELSE IF Exceeds(o.val, DwordBytes) THEN INFINITE
                   ELSE Cast(o.val, DwordBytes)
         IN  IF IsZero(ms) THEN Err(InvalidInput) ELSE Ok(ms)

ms2dur_truncating(raw) ==
    IF IsZero(raw) THEN None
    ELSE LET q == DivSmall(raw, 1000, 0)
         IN  Some(Duration(Cast(q.digits, U64Bytes), 0))

ms2dur(raw) ==
    IF IsZero(raw) THEN None
    ELSE LET q == DivSmall(raw, 1000, 0)
             secs == q.digits
             nsec == q.rem * 1000000
         IN  Some(Duration(Cast(secs, U64Bytes), nsec))

----------------------------------------------------------------------------
(* The socket-option calls.  An option is named by its level and its name, *)
(* `opt` and `val` in the code; the constants are winapi's, kept by name.   *)
(* `os` is what the OS call returns: 0, or the code WSAGetLastError then   *)
(* reports; `oslen` is the payload length the OS writes back.              *)

SOL_SOCKET == "SOL_SOCKET"
IPPROTO_IP == "IPPROTO_IP"
IPPROTO_IPV6 == "IPPROTO_IPV6"
IPPROTO_TCP == "IPPROTO_TCP"

\* c_int is as wide as DWORD
CIntBytes == DwordBytes

OsOptErrors == {10022}      \* WSAEINVAL
OsOptResults == {0} \cup OsOptErrors
OsOptLens == {1, DwordBytes}

AddMembership == {"IP_ADD_MEMBERSHIP", "IPV6_ADD_MEMBERSHIP"}
DropMembership == {"IP_DROP_MEMBERSHIP", "IPV6_DROP_MEMBERSHIP"}

\* kernel: the option store after a setsockopt call that succeeds; a
\* membership request joins or leaves the group at the level it was made at,
\* any other payload replaces the option's value
OsSetOpt(opts, opt, val, payload) ==
    IF val \in AddMembership
    THEN [opts EXCEPT ![<<opt, "memberships">>] = @ \cup {payload}]
    ELSE IF val \in DropMembership
    THEN [opts EXCEPT ![<<opt, "memberships">>] = @ \ {payload}]
    ELSE [opts EXCEPT ![<<opt, val>>] = payload]

\* kernel: the option store after a getsockopt call that succeeds; reading
\* SO_ERROR resets the pending error
OsGetOpt(opts, opt, val) ==
    IF <<opt, val>> = <<SOL_SOCKET, "SO_ERROR">>
    THEN [opts EXCEPT ![<<opt, val>>] = Zeros(CIntBytes)]
    ELSE opts

\* Socket::setsockopt: the return value, the kernel's option store after the
\* call, and the OS call made
setsockopt(opts, opt, val, payload, os) ==
    [ret   |-> IF os = 0 THEN Ok(Unit) ELSE Err(last_error(os)),
     opts  |-> IF os = 0 THEN OsSetOpt(opts, opt, val, payload) ELSE opts,
     calls |-> <<[call |-> "setsockopt", opt |-> opt, val |-> val,
                  payload |-> payload]>>]

getsockopt_noassert(opts, opt, val, size, os, oslen) ==
    [ret   |-> IF os = 0 THEN Ok(opts[<<opt, val>>]) ELSE Err(last_error(os)),
     opts  |-> IF os = 0 THEN OsGetOpt(opts, opt, val) ELSE opts,
     calls |-> <<[call |-> "getsockopt", opt |-> opt, val |-> val,
                  size |-> size, ret |-> os, len |-> oslen]>>]

\* Socket::getsockopt::<T> with size_of::<T>() = size
getsockopt(opts, opt, val, size, os, oslen) ==
    [ret   |-> IF os = 0
               THEN IF oslen = size THEN Ok(opts[<<opt, val>>]) ELSE Panic
               ELSE Err(last_error(os)),
     opts  |-> IF os = 0 THEN OsGetOpt(opts, opt, val) ELSE opts,
     calls |-> <<[call |-> "getsockopt", opt |-> opt, val |-> val,
                  size |-> size, ret |-> os, len |-> oslen]>>]

\* Result::map / the `?` operator followed by Ok(f(..))
map_ok(r, F(_)) == IF r.tag = "Ok" THEN Ok(F(r.val)) ELSE r

set_timeout(op, name, dur) ==
    LET ms == dur2ms(dur)
    IN  IF ms.tag # "Ok"
        THEN /\ last' = [op |-> op, arg |-> dur, ret |-> ms]
             /\ calls' = <<>>
             /\ UNCHANGED stateVars
        ELSE \E os \in OsOptResults :
                LET r == setsockopt(sockopts, SOL_SOCKET, name, ms.val, os)
                IN  /\ last' = [op |-> op, arg |-> dur, ret |-> r.ret]
                    /\ calls' = r.calls
                    /\ sockopts' = r.opts
                    /\ tset' = IF r.ret.tag = "Ok"
                               THEN [tset EXCEPT ![<<SOL_SOCKET, name>>] = Some(dur)]
                               ELSE tset
                    /\ UNCHANGED <<taken, notOptVars>>

get_timeout(op, name) ==
    \E os \in OsOptResults, oslen \in OsOptLens :
        LET r == getsockopt(sockopts, SOL_SOCKET, name, DwordBytes, os, oslen)
        IN  /\ last' = [op |-> op, arg |-> None, ret |-> map_ok(r.ret, ms2dur)]
            /\ calls' = r.calls
            /\ sockopts' = r.opts
            /\ UNCHANGED <<tset, taken, notOptVars>>

read_timeout == get_timeout("read_timeout", "SO_RCVTIMEO")
set_read_timeout(dur) == set_timeout("set_read_timeout", "SO_RCVTIMEO", dur)
write_timeout == get_timeout("write_timeout", "SO_SNDTIMEO")
set_write_timeout(dur) == set_timeout("set_write_timeout", "SO_SNDTIMEO", dur)

\* dur2ms applied on its own
CallDur2ms(dur) ==
    /\ last' = [op |-> "dur2ms", arg |-> dur, ret |-> dur2ms(dur)]
    /\ calls' = <<>>
    /\ UNCHANGED stateVars

\* ms2dur applied to the millisecond count dur2ms just returned
CallMs2dur ==
    /\ last.op = "dur2ms"
    /\ last.ret.tag = "Ok"
    /\ last' = [op |-> "ms2dur", arg |-> last.arg, ret |-> Ok(ms2dur(last.ret.val))]
    /\ calls' = <<>>
    /\ UNCHANGED stateVars

----------------------------------------------------------------------------
(* The durations tried: around zero, around the largest duration whose     *)
(* millisecond count fits a DWORD (4294967.295 s), around the largest      *)
(* whose millisecond count fits a u64, and at the top of u64.              *)

MaxDelta == 2

MaxU64 == Ones(U64Bytes)
DwordMaxSecs == ToDigits(4294967, U64Bytes)
U64MaxSecs == DivSmall(MaxU64, 1000, 0).digits

Around(x) ==
    {AddSmall(x, k).digits : k \in 0..MaxDelta}
        \cup {SubSmall(x, k).digits : k \in 0..MaxDelta}

SecsSamples ==
    {ToDigits(k, U64Bytes) : k \in 0..MaxDelta}
        \cup Around(DwordMaxSecs)
        \cup Around(U64MaxSecs)
        \cup {SubSmall(MaxU64, k).digits : k \in 0..MaxDelta}

NanosSamples ==
    {0, 1, 1000000, 295000000, 295000001, 615000001, 616000000, 999999999}

\* arguments of dur2ms
Durations ==
    {None} \cup {Some(Duration(s, n)) : s \in SecsSamples, n \in NanosSamples}

\* arguments of the timeout setters: none, zero, below one millisecond, whole
\* milliseconds, rounding up into the next second, the largest timeout that
\* fits a DWORD (4294967.295 s) and the first that does not
Timeout(secs, nanos) == Some(Duration(ToDigits(secs, U64Bytes), nanos))
Timeouts ==
    {None, Timeout(0, 0), Timeout(0, 1), Timeout(0, 1000000),
     Timeout(0, 999999999), Timeout(1, 500000001),
     Timeout(4294967, 295000000), Timeout(4294967, 295000001)}

InitCommon ==
    /\ last = [op |-> "none", arg |-> None, ret |-> Ok(Unit)]
    /\ calls = <<>>

\* the options of a fresh socket: no timeouts, no pending error, no linger,
\* no memberships, the flags off but for the multicast loops, and the
\* system's TTLs and buffer sizes
OptDefaults ==
    <<SOL_SOCKET, "SO_RCVTIMEO">> :> Zeros(DwordBytes)
        @@ <<SOL_SOCKET, "SO_SNDTIMEO">> :> Zeros(DwordBytes)
        @@ <<SOL_SOCKET, "SO_ERROR">> :> Zeros(CIntBytes)
        @@ <<SOL_SOCKET, "SO_LINGER">> :> Zeros(CIntBytes)
        @@ <<SOL_SOCKET, "SO_BROADCAST">> :> Zeros(CIntBytes)
        @@ <<SOL_SOCKET, "SO_REUSEADDR">> :> Zeros(CIntBytes)
        @@ <<SOL_SOCKET, "SO_RCVBUF">> :> ToDigits(8192, CIntBytes)
        @@ <<SOL_SOCKET, "SO_SNDBUF">> :> ToDigits(8192, CIntBytes)
        @@ <<IPPROTO_TCP, "TCP_NODELAY">> :> Zeros(CIntBytes)
        @@ <<IPPROTO_IP, "IP_TTL">> :> ToDigits(128, CIntBytes)
        @@ <<IPPROTO_IP, "IP_MULTICAST_TTL">> :> ToDigits(1, CIntBytes)
        @@ <<IPPROTO_IP, "IP_MULTICAST_LOOP">> :> ToDigits(1, CIntBytes)
        @@ <<IPPROTO_IPV6, "IPV6_V6ONLY">> :> Zeros(CIntBytes)
        @@ <<IPPROTO_IPV6, "IPV6_MULTICAST_LOOP">> :> ToDigits(1, CIntBytes)
        @@ <<IPPROTO_IP, "memberships">> :> {}
        @@ <<IPPROTO_IPV6, "memberships">> :> {}

InitOpts ==
    /\ sockopts = OptDefaults
    /\ tset = [k \in DOMAIN OptDefaults |-> None]
    /\ taken = <<>>

InitAddr == sockaddr = None /\ rawaddr = None

\* nothing received yet
InitIo ==
    /\ rxq = <<>>
    /\ rxnext = 1
    /\ rxbuf = <<>>
    /\ hist = <<>>

MaxThreads == 3     \* threads calling Socket::new
Threads == 1..MaxThreads

\* no socket created yet, winsock not initialised, no thread in Socket::new
InitLife ==
    /\ handles = <<>>
    /\ descs = <<>>
    /\ objs = <<>>
    /\ initRuns = 0
    /\ once = "INCOMPLETE"
    /\ pc = [t \in Threads |-> "idle"]

Init == InitCommon /\ InitOpts /\ InitAddr /\ InitIo /\ InitLife

NextTimeout ==
    \/ \E dur \in Timeouts : set_read_timeout(dur)
    \/ \E dur \in Timeouts : set_write_timeout(dur)
    \/ read_timeout
    \/ write_timeout

SpecTimeout == Init /\ [][NextTimeout]_vars

\* dur2ms and ms2dur on their own: ms2dur decodes what dur2ms just encoded
NextDur ==
    \/ \E dur \in Durations : CallDur2ms(dur)
    \/ CallMs2dur

SpecDur == Init /\ [][NextDur]_vars

----------------------------------------------------------------------------
(* Timeouts: the claims.                                                   *)

ZeroDuration == Duration(Zeros(U64Bytes), 0)
IsTimeoutSetter(op) == op \in {"set_read_timeout", "set_write_timeout"}

\* the millisecond count of d, rounded up, at a width nothing overflows:
\* secs * 1000 + ceil(nanos / 10^6)
WideBytes == U64Bytes + 2
RefMs(d) ==
    AddSmall(MulSmall(Cast(d.secs, WideBytes), 1000, 0).digits,
             (d.nanos + 999999) \div 1000000).digits
FitsDword(d) == ~Exceeds(RefMs(d), DwordBytes)

\* d rounded up to the next whole millisecond, as a duration
RoundUpToMs(d) ==
    IF d.nanos % 1000000 = 0 THEN d
    ELSE LET n == ((d.nanos \div 1000000) + 1) * 1000000
         IN  IF n = 1000000000
             THEN Duration(AddSmall(d.secs, 1).digits, 0)
             ELSE Duration(d.secs, n)

\* C1: a timeout setter called with Some(zero duration) returns an
\* InvalidInput error, issues no setsockopt call and leaves the stored
\* timeouts as they were.
C1_ZeroTimeoutRejected ==
    [][(IsTimeoutSetter(last'.op) /\ last'.arg = Some(ZeroDuration))
          => /\ last'.ret = Err(InvalidInput)
             /\ calls' = <<>>
             /\ sockopts' = sockopts]_vars

\* a zero timeout was refused on a socket that has a read timeout set
C1_Witness ==
    /\ last.op = "set_read_timeout"
    /\ last.arg = Some(ZeroDuration)
    /\ last.ret = Err(InvalidInput)
    /\ ~IsZero(sockopts[<<SOL_SOCKET, "SO_RCVTIMEO">>])

\* C2: dur2ms(Some(d)) for a non-zero d is Ok(INFINITE) when d's rounded-up
\* millisecond count exceeds the DWORD maximum (or does not fit 64 bits),
\* never an error, and otherwise Ok of exactly that count.
C2_Dur2msSaturates ==
    (last.op = "dur2ms" /\ last.arg.some /\ last.arg.val # ZeroDuration)
        => last.ret = Ok(IF FitsDword(last.arg.val)
                         THEN Cast(RefMs(last.arg.val), DwordBytes)
                         ELSE INFINITE)

\* dur2ms saturated where seconds * 1000 overflows 64 bits
C2_Witness ==
    /\ last.op = "dur2ms"
    /\ last.arg.some
    /\ last.arg.val.secs = MaxU64
    /\ last.ret = Ok(INFINITE)

\* C3: a timeout getter that succeeds after a successful setter returns None
\* when None was set and, when Some(d) was set with d non-zero and at most
\* 2^32-1 ms, Some(d rounded up to the next whole millisecond).
TimeoutGot(op, name) ==
    (last.op = op /\ last.ret.tag = "Ok" /\ tset[<<SOL_SOCKET, name>>].some)
        => LET a == tset[<<SOL_SOCKET, name>>].val
           IN  IF ~a.some THEN last.ret.val = None
               ELSE (a.val # ZeroDuration /\ FitsDword(a.val))
                       => last.ret.val = Some(RoundUpToMs(a.val))

C3_SetThenGetTimeout ==
    /\ TimeoutGot("read_timeout", "SO_RCVTIMEO")
    /\ TimeoutGot("write_timeout", "SO_SNDTIMEO")

\* a timeout of one nanosecond was set and read back as one millisecond,
\* while the write timeout holds the largest value that fits
C3_Witness ==
    /\ last.op = "read_timeout"
    /\ last.ret.tag = "Ok"
    /\ tset[<<SOL_SOCKET, "SO_RCVTIMEO">>] = Some(Timeout(0, 1))
    /\ last.ret.val = Timeout(0, 1000000)
    /\ tset[<<SOL_SOCKET, "SO_SNDTIMEO">>] = Some(Timeout(4294967, 295000000))

----------------------------------------------------------------------------
(* The boolean and integer options.  A bool goes to the OS as a c_int of 0 *)
(* or 1 and comes back as `raw != 0`; a u32 goes and comes back as the     *)
(* c_int of the same 32 bits.                                              *)

MaxOptsSet == 2     \* options given a value by a setter in one run

\* `b as c_int`
bool_as_c_int(b) == ToDigits(IF b THEN 1 ELSE 0, CIntBytes)
\* `raw != 0`
c_int_ne_0(raw) == ~IsZero(raw)
\* `x as c_int` for a u32
u32_as_c_int(x) == Cast(x, CIntBytes)
\* `raw as u32` for a c_int
c_int_as_u32(raw) == Cast(raw, DwordBytes)

\* a setter: self.setsockopt(opt, val, payload), arg being its argument
set_opt(op, opt, val, arg, payload) ==
    \E os \in OsOptResults :
        LET r == setsockopt(sockopts, opt, val, payload, os)
        IN  /\ last' = [op |-> op, arg |-> arg, ret |-> r.ret]
            /\ calls' = r.calls
            /\ sockopts' = r.opts
            /\ tset' = IF r.ret.tag = "Ok"
                       THEN [tset EXCEPT ![<<opt, val>>] = Some(arg)]
                       ELSE tset
            /\ UNCHANGED <<taken, notOptVars>>

\* history: the last two results of take_error
TakenAfter(op, ret) ==
    IF op = "take_error" /\ ret.tag = "Ok"
    THEN LET t == Append(taken, ret.val)
         IN  IF Len(t) > 2 THEN Tail(t) ELSE t
    ELSE taken

\* a getter: self.getsockopt::<T>(opt, val)? with size_of::<T>() = size,
\* then Ok(F(raw))
get_opt(op, opt, val, size, F(_)) ==
    \E os \in OsOptResults, oslen \in OsOptLens :
        LET r == getsockopt(sockopts, opt, val, size, os, oslen)
        IN  /\ last' = [op |-> op, arg |-> None, ret |-> map_ok(r.ret, F)]
            /\ calls' = r.calls
            /\ sockopts' = r.opts
            /\ taken' = TakenAfter(op, map_ok(r.ret, F))
            /\ UNCHANGED <<tset, notOptVars>>

ttl == get_opt("ttl", IPPROTO_IP, "IP_TTL", CIntBytes, c_int_as_u32)
set_ttl(x) == set_opt("set_ttl", IPPROTO_IP, "IP_TTL", x, u32_as_c_int(x))

only_v6 == get_opt("only_v6", IPPROTO_IPV6, "IPV6_V6ONLY", CIntBytes, c_int_ne_0)

\* set_only_v6 writing to the other IPv6 flag
set_only_v6_clobbering(b) ==
    \E os \in OsOptResults :
        LET r == setsockopt(sockopts, IPPROTO_IPV6, "IPV6_MULTICAST_LOOP",
                            bool_as_c_int(b), os)
        IN  /\ last' = [op |-> "set_only_v6", arg |-> b, ret |-> r.ret]
            /\ calls' = r.calls
            /\ sockopts' = r.opts
            /\ tset' = IF r.ret.tag = "Ok"
                       THEN [tset EXCEPT ![<<IPPROTO_IPV6, "IPV6_V6ONLY">>] = Some(b)]
                       ELSE tset
            /\ UNCHANGED <<taken, notOptVars>>

set_only_v6(b) ==
    set_opt("set_only_v6", IPPROTO_IPV6, "IPV6_V6ONLY", b, bool_as_c_int(b))

nodelay == get_opt("nodelay", IPPROTO_TCP, "TCP_NODELAY", CIntBytes, c_int_ne_0)
set_nodelay(b) ==
    set_opt("set_nodelay", IPPROTO_TCP, "TCP_NODELAY", b, bool_as_c_int(b))

broadcast == get_opt("broadcast", SOL_SOCKET, "SO_BROADCAST", CIntBytes, c_int_ne_0)
set_broadcast(b) ==
    set_opt("set_broadcast", SOL_SOCKET, "SO_BROADCAST", b, bool_as_c_int(b))

multicast_loop_v4 ==
    get_opt("multicast_loop_v4", IPPROTO_IP, "IP_MULTICAST_LOOP", CIntBytes,
            c_int_ne_0)
set_multicast_loop_v4(b) ==
    set_opt("set_multicast_loop_v4", IPPROTO_IP, "IP_MULTICAST_LOOP", b,
            bool_as_c_int(b))

multicast_ttl_v4 ==
    get_opt("multicast_ttl_v4", IPPROTO_IP, "IP_MULTICAST_TTL", CIntBytes,
            c_int_as_u32)
set_multicast_ttl_v4(x) ==
    set_opt("set_multicast_ttl_v4", IPPROTO_IP, "IP_MULTICAST_TTL", x,
            u32_as_c_int(x))

multicast_loop_v6 ==
    get_opt("multicast_loop_v6", IPPROTO_IPV6, "IPV6_MULTICAST_LOOP", CIntBytes,
            c_int_ne_0)
set_multicast_loop_v6(b) ==
    set_opt("set_multicast_loop_v6", IPPROTO_IPV6, "IPV6_MULTICAST_LOOP", b,
            bool_as_c_int(b))

reuse_address ==
    get_opt("reuse_address", SOL_SOCKET, "SO_REUSEADDR", CIntBytes, c_int_ne_0)
set_reuse_address(b) ==
    set_opt("set_reuse_address", SOL_SOCKET, "SO_REUSEADDR", b, bool_as_c_int(b))

\* the u32 values tried: one, the sign bit of a c_int, and the largest
U32Values == {ToDigits(1, DwordBytes), <<0, 0, 0, 128>>, Ones(DwordBytes)}

\* the option may be set: it was set before, or few options were
CanSet(opt, val) ==
    \/ tset[<<opt, val>>].some
    \/ Cardinality({k \in DOMAIN tset : tset[k].some}) < MaxOptsSet

NextOpt ==
    \/ \E x \in U32Values : CanSet(IPPROTO_IP, "IP_TTL") /\ set_ttl(x)
    \/ \E b \in BOOLEAN : CanSet(IPPROTO_IPV6, "IPV6_V6ONLY") /\ set_only_v6(b)
    \/ \E b \in BOOLEAN : CanSet(IPPROTO_TCP, "TCP_NODELAY") /\ set_nodelay(b)
    \/ \E b \in BOOLEAN : CanSet(SOL_SOCKET, "SO_BROADCAST") /\ set_broadcast(b)
    \/ \E b \in BOOLEAN :
          CanSet(IPPROTO_IP, "IP_MULTICAST_LOOP") /\ set_multicast_loop_v4(b)
    \/ \E x \in U32Values :
          CanSet(IPPROTO_IP, "IP_MULTICAST_TTL") /\ set_multicast_ttl_v4(x)
    \/ \E b \in BOOLEAN :
          CanSet(IPPROTO_IPV6, "IPV6_MULTICAST_LOOP") /\ set_multicast_loop_v6(b)
    \/ \E b \in BOOLEAN : CanSet(SOL_SOCKET, "SO_REUSEADDR") /\ set_reuse_address(b)
    \/ ttl
    \/ only_v6
    \/ nodelay
    \/ broadcast
    \/ multicast_loop_v4
    \/ multicast_ttl_v4
    \/ multicast_loop_v6
    \/ reuse_address

SpecOpt == Init /\ [][NextOpt]_vars

\* the getter `op` of the option (opt, val), when it succeeds after a
\* successful setter of that option, returns the value last set
OptGot(op, opt, val) ==
    (last.op = op /\ last.ret.tag = "Ok" /\ tset[<<opt, val>>].some)
        => last.ret.val = tset[<<opt, val>>].val

\* C11: for each of the eight boolean and integer options, a getter that
\* succeeds returns the value of the last successful setter of that option,
\* whatever setters of other options ran in between.
C11_OptionSetThenGet ==
    /\ OptGot("nodelay", IPPROTO_TCP, "TCP_NODELAY")
    /\ OptGot("broadcast", SOL_SOCKET, "SO_BROADCAST")
    /\ OptGot("only_v6", IPPROTO_IPV6, "IPV6_V6ONLY")
    /\ OptGot("reuse_address", SOL_SOCKET, "SO_REUSEADDR")
    /\ OptGot("multicast_loop_v4", IPPROTO_IP, "IP_MULTICAST_LOOP")
    /\ OptGot("multicast_loop_v6", IPPROTO_IPV6, "IPV6_MULTICAST_LOOP")
    /\ OptGot("ttl", IPPROTO_IP, "IP_TTL")
    /\ OptGot("multicast_ttl_v4", IPPROTO_IP, "IP_MULTICAST_TTL")

\* the IPv6 multicast loop was switched off, only_v6 was switched on after
\* it, and the loop reads back as off
C11_Witness ==
    /\ last.op = "multicast_loop_v6"
    /\ last.ret = Ok(FALSE)
    /\ tset[<<IPPROTO_IPV6, "IPV6_MULTICAST_LOOP">>] = Some(FALSE)
    /\ tset[<<IPPROTO_IPV6, "IPV6_V6ONLY">>] = Some(TRUE)
    /\ sockopts[<<IPPROTO_IPV6, "IPV6_V6ONLY">>] = bool_as_c_int(TRUE)

----------------------------------------------------------------------------
(* Socket addresses and their raw form.  Memory is a sequence of bytes;    *)
(* the byte at offset o is element o + 1.  A multi-byte integer field read *)
(* or written natively is little-endian: its digits are its bytes.         *)

Reverse(x) == [i \in 1..Len(x) |-> x[Len(x) + 1 - i]]

\* lib.rs: I::from_be / to_be on a little-endian target swap the bytes
ntoh_noswap(i) == i
ntoh(i) == Reverse(i)
hton(i) == Reverse(i)

AF_INET == 2
AF_INET6 == 23
SizeofSockaddrIn == 16
SizeofSockaddrIn6 == 28
SizeofStorage == 128

\* std::net values: an Ipv4Addr is its 4 octets, an Ipv6Addr its 16 octets,
\* a port is a u16 and flowinfo / scope_id are u32 (digits)
SocketAddrV4(ip, port) == [family |-> "V4", ip |-> ip, port |-> port]
SocketAddrV6(ip, port, flowinfo, scope_id) ==
    [family |-> "V6", ip |-> ip, port |-> port,
     flowinfo |-> flowinfo, scope_id |-> scope_id]

\* Ipv4Addr::new(a, b, c, d) from four u8
Ipv4Addr_new(a, b, c, d) == <<a, b, c, d>>
\* Ipv6Addr::new(a, .., h) from eight u16: each segment's high byte first
Ipv6Addr_new(segs) ==
    [i \in 1..16 |-> IF i % 2 = 1 THEN segs[(i + 1) \div 2][2]
                                  ELSE segs[i \div 2][1]]

\* the sockaddr_in / sockaddr_in6 that a SocketAddrV4 / SocketAddrV6 holds
\* and that addr2raw hands out by pointer: family, port in network order,
\* the address octets, flowinfo and scope_id as they are
SockaddrIn(a) ==
    ToDigits(AF_INET, 2) \o hton(a.port)
        \o hton(<<a.ip[4], a.ip[3], a.ip[2], a.ip[1]>>) \o Zeros(8)
SockaddrIn6(a) ==
    ToDigits(AF_INET6, 2) \o hton(a.port) \o a.flowinfo \o a.ip \o a.scope_id

\* addr2raw: the pointer's bytes and the length
addr2raw(addr) ==
    IF addr.family = "V4"
    THEN [bytes |-> SockaddrIn(addr), len |-> SizeofSockaddrIn]
    ELSE [bytes |-> SockaddrIn6(addr), len |-> SizeofSockaddrIn6]

\* a zeroed SOCKADDR_STORAGE (mem::zeroed) with `bytes` written at its start
Storage(bytes) ==
    [i \in 1..SizeofStorage |-> IF i <= Len(bytes) THEN bytes[i] ELSE 0]

Field(storage, offset, size) == SubSeq(storage, offset + 1, offset + size)
\* `(x >> bits) as u8`
ShrU8(x, bits) == x[(bits \div 8) + 1]
\* `(hi as u16) << 8 | (lo as u16)`
U16(hi, lo) == <<lo, hi>>
\* a small unsigned value of its digits
RECURSIVE Value(_)
Value(x) == IF x = <<>> THEN 0 ELSE Head(x) + Base * Value(Tail(x))

raw2addr(storage, len) ==
    LET ss_family == Value(Field(storage, 0, 2))
    IN  IF ss_family = AF_INET
        THEN IF len < SizeofSockaddrIn THEN Panic
             ELSE LET bits == ntoh(Field(storage, 4, 4))
                      ip == Ipv4Addr_new(ShrU8(bits, 24), ShrU8(bits, 16),
                                         ShrU8(bits, 8), ShrU8(bits, 0))
                  IN  Ok(SocketAddrV4(ip, ntoh(Field(storage, 2, 2))))
        ELSE IF ss_family = AF_INET6
        THEN IF len < SizeofSockaddrIn6 THEN Panic
             ELSE LET arr == Field(storage, 8, 16)
                      ip == Ipv6Addr_new(
                              [k \in 1..8 |-> U16(arr[2 * k - 1], arr[2 * k])])
                  IN  Ok(SocketAddrV6(ip, ntoh(Field(storage, 2, 2)),
                                      Field(storage, 4, 4),
                                      Field(storage, 24, 4)))
        ELSE Err(InvalidInput)

\* addr2raw applied to the address at hand
CallAddr2raw ==
    /\ sockaddr # None
    /\ rawaddr = None
    /\ rawaddr' = Some(addr2raw(sockaddr))
    /\ last' = [op |-> "addr2raw", arg |-> sockaddr, ret |-> Ok(Unit)]
    /\ calls' = <<>>
    /\ UNCHANGED <<sockaddr, notAddrVars>>

\* raw2addr applied to a SOCKADDR_STORAGE holding what addr2raw pointed to
CallRaw2addr ==
    /\ rawaddr # None
    /\ last.op = "addr2raw"
    /\ last' = [op |-> "raw2addr", arg |-> rawaddr.val,
                ret |-> raw2addr(Storage(rawaddr.val.bytes), rawaddr.val.len)]
    /\ calls' = <<>>
    /\ UNCHANGED stateVars

\* The addresses tried: octets at both ends of a byte, in every position
AddrSpread == 1

Octets == {0, Base - 1} \cup (1..AddrSpread)
Patterns(n) ==
    {[i \in 1..n |-> (c + k * i) % Base] : c \in Octets, k \in 0..AddrSpread}

Ipv4Samples == {Ipv4Addr_new(a, b, c, d) : a, b, c, d \in Octets}
PortSamples == {<<lo, hi>> : lo, hi \in Octets}
U32Samples == Patterns(4)
Ipv6Samples == Patterns(16)

V4Samples == {SocketAddrV4(ip, port) : ip \in Ipv4Samples, port \in PortSamples}
V6Samples ==
    {SocketAddrV6(ip, port, flowinfo, scope_id) :
        ip \in Ipv6Samples, port \in PortSamples,
        flowinfo \in U32Samples, scope_id \in U32Samples}
AddrSamples == V4Samples \cup V6Samples

InitAddrs ==
    /\ InitCommon
    /\ InitOpts
    /\ InitIo
    /\ InitLife
    /\ sockaddr \in AddrSamples
    /\ rawaddr = None

NextAddr == CallAddr2raw \/ CallRaw2addr

SpecAddr == InitAddrs /\ [][NextAddr]_vars

\* C9: decoding with raw2addr what addr2raw encoded returns Ok of the
\* original address: IPv4 address and port, IPv6 address, port, flow-info
\* and scope-id.
C9_AddrRoundTrip == last.op = "raw2addr" => last.ret = Ok(sockaddr)

\* an IPv6 address with non-zero flow-info and scope-id went round
C9_Witness ==
    /\ last.op = "raw2addr"
    /\ sockaddr.family = "V6"
    /\ ~IsZero(sockaddr.flowinfo)
    /\ ~IsZero(sockaddr.scope_id)
    /\ sockaddr.flowinfo # Reverse(sockaddr.flowinfo)
    /\ sockaddr.port # Reverse(sockaddr.port)
    /\ last.ret = Ok(sockaddr)

----------------------------------------------------------------------------
(* local_addr and peer_addr.  getsockname / getpeername return `os` (0, or *)
(* the code WSAGetLastError reports) and on success have written the       *)
(* socket's name into the zeroed storage and its length into len; on       *)
(* failure both are left as they were.                                     *)

OsNameErrors == {10022, 10057}      \* WSAEINVAL, WSAENOTCONN
OsNameResults == {0} \cup OsNameErrors

\* address families that are neither AF_INET nor AF_INET6: AF_UNSPEC,
\* AF_UNIX, AF_IPX, AF_IRDA, AF_BTH, and tags equal to AF_INET / AF_INET6
\* in one byte only
OtherFamilies == {0, 1, 6, 26, 32, AF_INET + Base, AF_INET6 * Base}
OtherNameLens == {2, SizeofSockaddrIn, SizeofSockaddrIn6, SizeofStorage}

NameAddrs ==
    {a \in V4Samples : a.ip[1] = a.ip[2] /\ a.ip[3] = a.ip[4]}
        \cup {a \in V6Samples : /\ a.port[1] = a.port[2]
                                 /\ a.ip = Zeros(16)
                                 /\ a.flowinfo = a.scope_id}

\* what the OS may write: a name of the two supported families, or one of
\* another family
OsNames ==
    {[storage |-> Storage(addr2raw(a).bytes), len |-> addr2raw(a).len] :
        a \in NameAddrs}
    \cup {[storage |-> Storage(ToDigits(f, 2) \o p), len |-> n] :
            f \in OtherFamilies, p \in Patterns(4), n \in OtherNameLens}

sockname_skipcheck(call, os, name) ==
    [ret   |-> raw2addr(name.storage, name.len),
     calls |-> <<[call |-> call]>>]

\* the body shared by local_addr and peer_addr
sockname(call, os, name) ==
    [ret   |-> IF os # 0 THEN Err(last_error(os))
               ELSE raw2addr(name.storage, name.len),
     calls |-> <<[call |-> call]>>]

\* the storage and length after the OS call
AfterNameCall(os, name) ==
    IF os = 0 THEN name
    ELSE [storage |-> Storage(<<>>), len |-> SizeofStorage]

name_query(op, call) ==
    \E os \in OsNameResults, name \in OsNames :
        LET r == sockname(call, os, AfterNameCall(os, name))
        IN  /\ last' = [op |-> op,
                        arg |-> [os |-> os,
                                 family |-> Value(Field(AfterNameCall(os, name).storage, 0, 2))],
                        ret |-> r.ret]
            /\ calls' = r.calls
            /\ UNCHANGED stateVars

local_addr == name_query("local_addr", "getsockname")
peer_addr == name_query("peer_addr", "getpeername")

NextName == local_addr \/ peer_addr

SpecName == Init /\ [][NextName]_vars

IsNameQuery(op) == op \in {"local_addr", "peer_addr"}

\* C10: local_addr / peer_addr return an InvalidInput error (no panic, no
\* address) when the OS call succeeds with a family tag that is neither
\* AF_INET nor AF_INET6, and the OS error code when the OS call fails.
C10_NameQueryErrors ==
    IsNameQuery(last.op) =>
        /\ (last.arg.os = 0 /\ last.arg.family \notin {AF_INET, AF_INET6})
              => last.ret = Err(InvalidInput)
        /\ last.arg.os # 0 => last.ret = Err(last_error(last.arg.os))

\* the OS reported AF_UNIX and the query failed with InvalidInput
C10_Witness ==
    /\ last.op = "peer_addr"
    /\ last.arg.os = 0
    /\ last.arg.family = 1
    /\ last.ret = Err(InvalidInput)

----------------------------------------------------------------------------
(* Receiving.  The kernel holds the bytes received and not yet consumed;   *)
(* the incoming stream is 1, 2, 3, ..  A receive call returns SOCKET_ERROR *)
(* with an error code and touches nothing, or returns a count n, has       *)
(* copied the first n pending bytes to the buffer and, unless MSG_PEEK is  *)
(* among the flags, has removed them.                                      *)

MSG_PEEK == 2
SOCKET_ERROR == -1
WSAESHUTDOWN == 10058

MaxBuf == 2         \* buffer lengths tried: 0..MaxBuf
MaxQueue == 2       \* bytes pending at most
MaxStream == 3      \* bytes arriving in all

Min(a, b) == IF a < b THEN a ELSE b
HasFlag(flags, f) == (flags \div f) % 2 = 1
IsPrefix(x, y) == Len(x) <= Len(y) /\ x = SubSeq(y, 1, Len(x))

\* cmp::min(input, c_int::max_value() as usize) as c_int
clamp(input) == Min(input, 2147483647)

OsRecvErrors == {WSAESHUTDOWN, 10054}       \* and WSAECONNRESET
\* the counts a receive into len bytes may return
OsRecvCounts(len) ==
    IF Min(len, Len(rxq)) = 0 THEN {0} ELSE 1..Min(len, Len(rxq))
OsRecvOutcomes(len) ==
    {[n |-> SOCKET_ERROR, err |-> e] : e \in OsRecvErrors}
        \cup {[n |-> n, err |-> 0] : n \in OsRecvCounts(len)}

\* the pending bytes after the call, and the bytes copied out
OsRecvQueue(q, os, flags) ==
    IF os.n = SOCKET_ERROR \/ HasFlag(flags, MSG_PEEK) THEN q
    ELSE SubSeq(q, os.n + 1, Len(q))
OsRecvCopied(q, os) ==
    IF os.n = SOCKET_ERROR THEN <<>> ELSE SubSeq(q, 1, os.n)

\* the sender's address recvfrom may write on success: an IPv4 or IPv6
\* source, or nothing (a connection-oriented socket)
Unwritten == [storage |-> Storage(<<>>), len |-> SizeofStorage]
OsFroms ==
    {Unwritten}
        \cup {[storage |-> Storage(addr2raw(a).bytes), len |-> addr2raw(a).len] :
                a \in {SocketAddrV4(Ipv4Addr_new(127, 0, 0, 1), <<2, 1>>),
                       SocketAddrV6(Ones(16), <<2, 1>>, <<1, 2, 3, 4>>, Zeros(4))}}
OsRecvfromOutcomes(len) ==
    {[n |-> SOCKET_ERROR, err |-> e, from |-> Unwritten] : e \in OsRecvErrors}
        \cup {[n |-> n, err |-> 0, from |-> f] :
                n \in OsRecvCounts(len), f \in OsFroms}

\* the match on the return value in recv and peek
recv_match_noshutdown(os) ==
    IF os.n = SOCKET_ERROR THEN Err(last_error(os.err)) ELSE Ok(os.n)

recv_match(os) ==
    IF os.n = SOCKET_ERROR /\ os.err = WSAESHUTDOWN THEN Ok(0)
    ELSE IF os.n = SOCKET_ERROR THEN Err(last_error(os.err))
    ELSE Ok(os.n)

\* the match in recvfrom and the decoding of the sender's address
recvfrom_match(os) ==
    IF os.n = SOCKET_ERROR /\ os.err # WSAESHUTDOWN
    THEN Err(last_error(os.err))
    ELSE LET n == IF os.n = SOCKET_ERROR THEN 0 ELSE os.n
             a == raw2addr(os.from.storage, os.from.len)
         IN  IF a.tag = "Ok" THEN Ok(<<n, a.val>>) ELSE a

Last2(h) == IF Len(h) > 2 THEN Tail(h) ELSE h
\* the record of consecutive successful peeks
HistAfter(flags, ret, copied) ==
    IF HasFlag(flags, MSG_PEEK) /\ ret.tag = "Ok"
    THEN Last2(Append(hist, copied))
    ELSE <<>>

\* recv and peek: one ws2_32::recv call with the flags given
recv_with(op, flags) ==
    \E len \in 0..MaxBuf :
        \E os \in OsRecvOutcomes(clamp(len)) :
            /\ last' = [op |-> op, arg |-> os, ret |-> recv_match(os)]
            /\ calls' = <<[call |-> "recv", len |-> clamp(len), flags |-> flags]>>
            /\ rxq' = OsRecvQueue(rxq, os, flags)
            /\ rxbuf' = OsRecvCopied(rxq, os)
            /\ hist' = HistAfter(flags, recv_match(os), OsRecvCopied(rxq, os))
            /\ UNCHANGED <<rxnext, notIoVars>>

\* Socket::recvfrom: one ws2_32::recvfrom call with the flags given
recvfrom(op, flags) ==
    \E len \in 0..MaxBuf :
        \E os \in OsRecvfromOutcomes(clamp(len)) :
            /\ last' = [op |-> op, arg |-> os, ret |-> recvfrom_match(os)]
            /\ calls' = <<[call |-> "recvfrom", len |-> clamp(len), flags |-> flags]>>
            /\ rxq' = OsRecvQueue(rxq, os, flags)
            /\ rxbuf' = OsRecvCopied(rxq, os)
            /\ hist' = HistAfter(flags, recvfrom_match(os), OsRecvCopied(rxq, os))
            /\ UNCHANGED <<rxnext, notIoVars>>

recv == recv_with("recv", 0)

peek_consuming == recv_with("peek", 0)
peek == recv_with("peek", MSG_PEEK)

recv_from == recvfrom("recv_from", 0)
peek_from == recvfrom("peek_from", MSG_PEEK)

\* the network delivers the next byte of the stream
Arrive ==
    /\ Len(rxq) < MaxQueue
    /\ rxnext <= MaxStream
    /\ rxq' = Append(rxq, rxnext)
    /\ rxnext' = rxnext + 1
    /\ last' = [op |-> "arrive", arg |-> None, ret |-> Ok(Unit)]
    /\ calls' = <<>>
    /\ UNCHANGED <<rxbuf, hist, notIoVars>>

NextIo == recv \/ peek \/ recv_from \/ peek_from \/ Arrive

SpecIo == Init /\ [][NextIo]_vars

IsPeek(op) == op \in {"peek", "peek_from"}
IsRecv(op) == op \in {"recv", "recv_from"}
Compatible(x, y) == IsPrefix(x, y) \/ IsPrefix(y, x)

\* C4: recv and peek return Ok(0) when the OS call fails with WSAESHUTDOWN,
\* Err carrying the code when it fails with any other code, and Ok(n) with
\* the OS byte count when it does not fail.
C4_RecvShutdownIsEmptyRead ==
    last.op \in {"recv", "peek"} =>
        /\ (last.arg.n = SOCKET_ERROR /\ last.arg.err = WSAESHUTDOWN)
              => last.ret = Ok(0)
        /\ (last.arg.n = SOCKET_ERROR /\ last.arg.err # WSAESHUTDOWN)
              => last.ret = Err(last_error(last.arg.err))
        /\ last.arg.n # SOCKET_ERROR => last.ret = Ok(last.arg.n)

\* a peek on a socket with pending data met WSAESHUTDOWN and read nothing
C4_Witness ==
    /\ last.op = "peek"
    /\ last.arg.n = SOCKET_ERROR
    /\ last.arg.err = WSAESHUTDOWN
    /\ last.ret = Ok(0)
    /\ rxq # <<>>

\* C5: recv_from and peek_from return a successful zero-byte read when the
\* OS call fails with WSAESHUTDOWN and leaves the address storage unwritten.
C5_RecvfromShutdownIsEmptyRead ==
    (/\ last.op \in {"recv_from", "peek_from"}
     /\ last.arg.n = SOCKET_ERROR
     /\ last.arg.err = WSAESHUTDOWN
     /\ last.arg.from = Unwritten)
        => (last.ret.tag = "Ok" /\ last.ret.val[1] = 0)

\* C6: a peek or peek_from leaves the pending data as it was and reads a
\* prefix of it; only recv and recv_from remove pending bytes; and a receive
\* after two consecutive peeks reads the same leading bytes as they did.
C6_PeekDoesNotConsume ==
    [][/\ IsPeek(last'.op) => (rxq' = rxq /\ IsPrefix(rxbuf', rxq'))
       /\ ~IsPrefix(rxq, rxq') => IsRecv(last'.op)
       /\ (IsRecv(last'.op) /\ last'.ret.tag = "Ok" /\ Len(hist) = 2)
            => /\ Compatible(hist[1], hist[2])
               /\ Compatible(hist[1], rxbuf')
               /\ Compatible(hist[2], rxbuf')]_vars

\* two consecutive peeks have read two pending bytes, which are still pending
C6_Witness ==
    /\ IsPeek(last.op)
    /\ Len(hist) = 2
    /\ Len(hist[1]) = 2
    /\ hist[2] = hist[1]
    /\ rxq = hist[1]

----------------------------------------------------------------------------
(* Lifetimes.  A descriptor is a reference to an underlying socket; the    *)
(* kernel hands out a fresh one for every socket created, accepted or      *)
(* duplicated, inheritable at first, and releases the underlying socket    *)
(* when its last open descriptor is closed.  A handle is an owning value:  *)
(* a Socket, or one of std's TcpStream, TcpListener and UdpSocket.         *)

MaxHandles == 4     \* owning values created in all
MaxDescs == 3       \* descriptors handed out in all

StdTypes == {"TcpStream", "TcpListener", "UdpSocket"}

OsSocketResults == {0, 10024}       \* success, WSAEMFILE
OsDupResults == {0, 10038}          \* success, WSAENOTSOCK
OsHandleResults == {0, 1}           \* SetHandleInformation: 0 is failure
\* io::Error::last_os_error() after SetHandleInformation failed:
\* ERROR_INVALID_HANDLE, say
last_os_error == last_error(6)

OsNewDesc(ds, o) ==
    Append(ds, [obj |-> o, open |-> TRUE, inherit |-> TRUE, closes |-> 0])
OsNewObj(ob) == Append(ob, [refs |-> 1, released |-> FALSE])
OsAddRef(ob, o) == [ob EXCEPT ![o].refs = @ + 1]

\* ws2_32::closesocket(d): the kernel's tables after the call
closesocket(ds, ob, d) ==
    IF ds[d].open
    THEN [descs |-> [ds EXCEPT ![d].open = FALSE, ![d].closes = @ + 1],
          objs  |-> [ob EXCEPT ![ds[d].obj].refs = @ - 1,
                               ![ds[d].obj].released = (ob[ds[d].obj].refs = 1)]]
    ELSE [descs |-> [ds EXCEPT ![d].closes = @ + 1], objs |-> ob]

\* init(): the Once runs its body on the first call only
init(runs) == IF runs = 0 THEN 1 ELSE runs

set_no_inherit_unchecked(ds, d, r) ==
    [ret   |-> Ok(Unit),
     descs |-> IF r = 0 THEN ds ELSE [ds EXCEPT ![d].inherit = FALSE]]

\* Socket::set_no_inherit on descriptor d; r is SetHandleInformation's return
set_no_inherit(ds, d, r) ==
    [ret   |-> IF r = 0 THEN Err(last_os_error) ELSE Ok(Unit),
     descs |-> IF r = 0 THEN ds ELSE [ds EXCEPT ![d].inherit = FALSE]]

Handle(type, d, state) == [type |-> type, socket |-> d, state |-> state]
Owned(h) == h \in 1..Len(handles) /\ handles[h].state = "owned"

adopt_leaking(hs, ds, ob, d, r, decoded) ==
    LET s == set_no_inherit(ds, d, r)
    IN  IF s.ret.tag = "Ok" /\ decoded.tag = "Ok"
        THEN [ret |-> Ok(Len(hs) + 1),
              handles |-> Append(hs, Handle("Socket", d, "owned")),
              descs |-> s.descs, objs |-> ob]
        ELSE [ret |-> IF s.ret.tag # "Ok" THEN s.ret ELSE decoded,
              handles |-> Append(hs, Handle("Socket", d, "forgotten")),
              descs |-> s.descs, objs |-> ob]

\* the end of new, try_clone and accept: Socket::from_raw_socket(d), then
\* set_no_inherit()?, then (accept) the peer address decoded with `?`; an
\* early return drops the Socket, which closes d
adopt(hs, ds, ob, d, r, decoded) ==
    LET s == set_no_inherit(ds, d, r)
        c == closesocket(s.descs, ob, d)
        failed == IF s.ret.tag # "Ok" THEN s.ret ELSE decoded
    IN  IF s.ret.tag = "Ok" /\ decoded.tag = "Ok"
        THEN [ret |-> Ok(Len(hs) + 1),
              handles |-> Append(hs, Handle("Socket", d, "owned")),
              descs |-> s.descs, objs |-> ob]
        ELSE [ret |-> failed,
              handles |-> Append(hs, Handle("Socket", d, "dropped")),
              descs |-> c.descs, objs |-> c.objs]

Room == Len(handles) < MaxHandles /\ Len(descs) < MaxDescs

\* Socket::new after init(): WSASocketW, then from_raw_socket and
\* set_no_inherit
new_socket(os, r) ==
    /\ calls' = <<[call |-> "WSASocketW"]>>
    /\ IF os # 0
       THEN /\ last' = [op |-> "new", arg |-> None, ret |-> Err(last_error(os))]
            /\ UNCHANGED <<handles, descs, objs>>
       ELSE /\ Room
            /\ LET a == adopt(handles, OsNewDesc(descs, Len(objs) + 1),
                              OsNewObj(objs), Len(descs) + 1, r, Ok(Unit))
               IN  /\ last' = [op |-> "new", arg |-> None, ret |-> a.ret]
                   /\ handles' = a.handles
                   /\ descs' = a.descs
                   /\ objs' = a.objs

\* Socket::new, called with no other call of it in progress
new ==
    \E os \in OsSocketResults, r \in OsHandleResults :
        /\ initRuns' = init(initRuns)
        /\ new_socket(os, r)
        /\ UNCHANGED notLifeVars

\* Socket::accept on handle h; the peer's address is what the OS wrote
accept(h) ==
    \E os \in OsSocketResults, r \in OsHandleResults, peer \in OsFroms :
        /\ Owned(h)
        /\ handles[h].type = "Socket"
        /\ calls' = <<[call |-> "accept"]>>
        /\ IF os # 0 \/ ~descs[handles[h].socket].open
           THEN /\ last' = [op |-> "accept", arg |-> h,
                            ret |-> Err(last_error(IF os # 0 THEN os ELSE 10038))]
                /\ UNCHANGED <<handles, descs, objs>>
           ELSE /\ Room
                /\ LET a == adopt(handles, OsNewDesc(descs, Len(objs) + 1),
                                  OsNewObj(objs), Len(descs) + 1, r,
                                  raw2addr(peer.storage, peer.len))
                   IN  /\ last' = [op |-> "accept", arg |-> h, ret |-> a.ret]
                       /\ handles' = a.handles
                       /\ descs' = a.descs
                       /\ objs' = a.objs
        /\ UNCHANGED <<initRuns, notLifeVars>>

try_clone_alias(h) ==
    /\ Owned(h)
    /\ handles[h].type = "Socket"
    /\ Len(handles) < MaxHandles
    /\ calls' = <<>>
    /\ last' = [op |-> "try_clone", arg |-> h, ret |-> Ok(Len(handles) + 1)]
    /\ handles' = Append(handles, Handle("Socket", handles[h].socket, "owned"))
    /\ UNCHANGED <<descs, objs, initRuns, notLifeVars>>

\* Socket::try_clone on handle h: WSADuplicateSocketW, then WSASocketW with
\* the protocol info, which yields a new descriptor of the same socket
try_clone(h) ==
    \E dup \in OsDupResults, os \in OsSocketResults, r \in OsHandleResults :
        /\ Owned(h)
        /\ handles[h].type = "Socket"
        /\ calls' = IF dup # 0 THEN <<[call |-> "WSADuplicateSocketW"]>>
                    ELSE <<[call |-> "WSADuplicateSocketW"], [call |-> "WSASocketW"]>>
        /\ IF dup # 0 \/ os # 0 \/ ~descs[handles[h].socket].open
           THEN /\ last' = [op |-> "try_clone", arg |-> h,
                            ret |-> Err(last_error(IF dup # 0 THEN dup
                                                   ELSE IF os # 0 THEN os
                                                   ELSE 10038))]
                /\ UNCHANGED <<handles, descs, objs>>
           ELSE /\ Room
                /\ LET o == descs[handles[h].socket].obj
                       a == adopt(handles, OsNewDesc(descs, o), OsAddRef(objs, o),
                                  Len(descs) + 1, r, Ok(Unit))
                   IN  /\ last' = [op |-> "try_clone", arg |-> h, ret |-> a.ret]
                       /\ handles' = a.handles
                       /\ descs' = a.descs
                       /\ objs' = a.objs
        /\ UNCHANGED <<initRuns, notLifeVars>>

into_raw_socket_dropping(hs, ds, ob, h) ==
    [handles |-> [hs EXCEPT ![h].state = "dropped"],
     descs |-> closesocket(ds, ob, hs[h].socket).descs,
     objs |-> closesocket(ds, ob, hs[h].socket).objs,
     socket |-> hs[h].socket]

\* IntoRawSocket for Socket: the descriptor, with the Socket forgotten
into_raw_socket(hs, ds, ob, h) ==
    [handles |-> [hs EXCEPT ![h].state = "forgotten"],
     descs |-> ds, objs |-> ob, socket |-> hs[h].socket]

\* FromRawSocket for Socket, and std's from_raw_socket: a value owning d
from_raw_socket(hs, type, d) == Append(hs, Handle(type, d, "owned"))

\* socket.into_raw_socket() called by the owner of handle h
IntoRawSocket(h) ==
    /\ Owned(h)
    /\ handles[h].type = "Socket"
    /\ LET m == into_raw_socket(handles, descs, objs, h)
       IN  /\ last' = [op |-> "into_raw_socket", arg |-> h, ret |-> Ok(m.socket)]
           /\ handles' = m.handles
           /\ descs' = m.descs
           /\ objs' = m.objs
    /\ calls' = <<>>
    /\ UNCHANGED <<initRuns, notLifeVars>>

\* From<Socket> for net::TcpStream / TcpListener / UdpSocket
FromSocket(h, type) ==
    /\ Owned(h)
    /\ handles[h].type = "Socket"
    /\ Len(handles) < MaxHandles
    /\ LET m == into_raw_socket(handles, descs, objs, h)
       IN  /\ last' = [op |-> "from_socket", arg |-> h, ret |-> Ok(Len(handles) + 1)]
           /\ handles' = from_raw_socket(m.handles, type, m.socket)
           /\ descs' = m.descs
           /\ objs' = m.objs
    /\ calls' = <<>>
    /\ UNCHANGED <<initRuns, notLifeVars>>

\* From<net::TcpStream / TcpListener / UdpSocket> for Socket; std's
\* into_raw_socket forgets the value it is called on
FromStd(h) ==
    /\ Owned(h)
    /\ handles[h].type \in StdTypes
    /\ Len(handles) < MaxHandles
    /\ last' = [op |-> "from_std", arg |-> h, ret |-> Ok(Len(handles) + 1)]
    /\ handles' = from_raw_socket([handles EXCEPT ![h].state = "forgotten"],
                                  "Socket", handles[h].socket)
    /\ calls' = <<>>
    /\ UNCHANGED <<descs, objs, initRuns, notLifeVars>>

\* Drop for Socket (and std's types): closesocket on the value's descriptor
Drop(h) ==
    /\ Owned(h)
    /\ LET c == closesocket(descs, objs, handles[h].socket)
       IN  /\ descs' = c.descs
           /\ objs' = c.objs
    /\ handles' = [handles EXCEPT ![h].state = "dropped"]
    /\ last' = [op |-> "drop", arg |-> h, ret |-> Ok(Unit)]
    /\ calls' = <<[call |-> "closesocket", socket |-> handles[h].socket]>>
    /\ UNCHANGED <<initRuns, notLifeVars>>

NextLife ==
    \/ new
    \/ \E h \in 1..MaxHandles : accept(h)
    \/ \E h \in 1..MaxHandles : try_clone(h)
    \/ \E h \in 1..MaxHandles : IntoRawSocket(h)
    \/ \E h \in 1..MaxHandles, type \in StdTypes : FromSocket(h, type)
    \/ \E h \in 1..MaxHandles : FromStd(h)
    \/ \E h \in 1..MaxHandles : Drop(h)

SpecLife == Init /\ [][NextLife]_vars

DescOf(h) == handles[h].socket
ObjOf(h) == descs[handles[h].socket].obj
Owners(d) == {h \in 1..Len(handles) : handles[h].state = "owned" /\ DescOf(h) = d}

\* every owned handle's descriptor is open and its socket not released
AllUsable ==
    \A h \in 1..Len(handles) :
        handles[h].state = "owned"
            => descs[DescOf(h)].open /\ ~objs[ObjOf(h)].released

\* a released socket has no open descriptor and no owning handle left
ReleasedLast ==
    \A o \in 1..Len(objs) :
        objs[o].released
            => /\ \A d \in 1..Len(descs) : descs[d].obj = o => ~descs[d].open
               /\ \A h \in 1..Len(handles) :
                     ObjOf(h) = o => handles[h].state # "owned"

\* C7: try_clone returns a handle owning a new descriptor of the same
\* underlying socket; a drop closes the dropped handle's descriptor only;
\* every handle still owned stays usable; and the underlying socket is
\* released only once no handle referring to it is left.
C7_CloneIndependent ==
    [][/\ (last'.op = "try_clone" /\ last'.ret.tag = "Ok")
            => /\ handles'[last'.ret.val].state = "owned"
               /\ handles'[last'.ret.val].socket # handles'[last'.arg].socket
               /\ descs'[handles'[last'.ret.val].socket].open
               /\ descs'[handles'[last'.ret.val].socket].obj
                     = descs'[handles'[last'.arg].socket].obj
       /\ last'.op = "drop"
            => \A d \in 1..Len(descs) :
                    d # handles[last'.arg].socket => descs'[d] = descs[d]
       /\ AllUsable'
       /\ ReleasedLast']_vars

\* the original of a clone was dropped and the clone is still usable
C7_Witness ==
    /\ last.op = "drop"
    /\ \E h1, h2 \in 1..Len(handles) :
          /\ handles[h1].state = "dropped"
          /\ handles[h2].state = "owned"
          /\ descs[DescOf(h1)].closes = 1
          /\ DescOf(h1) # DescOf(h2)
          /\ ObjOf(h1) = ObjOf(h2)
          /\ descs[DescOf(h2)].open
          /\ ~objs[ObjOf(h2)].released

IsConversion(op) == op \in {"from_socket", "from_std"}

\* C8: every descriptor has at most one owning handle and is closed at most
\* once; a conversion moves the descriptor to the target and leaves the
\* kernel's tables alone, as does into_raw_socket; and only a handle that
\* still owns its descriptor is ever dropped.
C8_SingleOwner ==
    [][/\ \A d \in 1..Len(descs') :
            /\ Cardinality(Owners(d)') <= 1
            /\ descs'[d].closes <= 1
       /\ IsConversion(last'.op)
            => /\ handles'[last'.ret.val].socket = handles[last'.arg].socket
               /\ handles'[last'.ret.val].state = "owned"
               /\ handles'[last'.arg].state = "forgotten"
               /\ descs' = descs
               /\ objs' = objs
       /\ last'.op = "into_raw_socket"
            => /\ last'.ret = Ok(handles[last'.arg].socket)
               /\ descs' = descs
               /\ objs' = objs
       /\ last'.op = "drop" => handles[last'.arg].state = "owned"
       /\ \A h \in 1..Len(handles) :
            handles[h].state = "forgotten" => handles'[h] = handles[h]]_vars

\* a Socket was converted to a std type whose drop closed the descriptor,
\* once
C8_Witness ==
    /\ last.op = "drop"
    /\ \E h1, h2 \in 1..Len(handles) :
          /\ handles[h1].type = "Socket"
          /\ handles[h1].state = "forgotten"
          /\ handles[h2].type \in StdTypes
          /\ handles[h2].state = "dropped"
          /\ DescOf(h1) = DescOf(h2)
          /\ descs[DescOf(h1)].closes = 1

----------------------------------------------------------------------------
(* The other option getters: the pending error, linger and the buffer      *)
(* sizes, beside every getter above.  A socket error becomes pending in    *)
(* the kernel when an operation in progress fails.                         *)

\* usize on a 64-bit target
UsizeBytes == U64Bytes

\* the value of a c_int held as bytes
c_int_value(raw) ==
    IF raw[Len(raw)] >= Base \div 2
    THEN -Value([i \in 1..Len(raw) |-> Base - 1 - raw[i]]) - 1
    ELSE Value(raw)

\* io::Error::from_raw_os_error(raw as i32)
from_raw_os_error(raw) == [kind |-> "Os", code |-> c_int_value(raw)]

\* the match of take_error on the c_int read
take_error_match(raw) == IF IsZero(raw) THEN None ELSE Some(from_raw_os_error(raw))

take_error_peeking ==
    \E os \in OsOptResults, oslen \in OsOptLens :
        LET r == getsockopt(sockopts, SOL_SOCKET, "SO_ERROR", CIntBytes, os, oslen)
        IN  /\ last' = [op |-> "take_error", arg |-> None,
                        ret |-> map_ok(r.ret, take_error_match)]
            /\ calls' = r.calls
            /\ taken' = TakenAfter("take_error", map_ok(r.ret, take_error_match))
            /\ UNCHANGED <<sockopts, tset, notOptVars>>

\* Socket::take_error
take_error ==
    get_opt("take_error", SOL_SOCKET, "SO_ERROR", CIntBytes, take_error_match)

\* `l_onoff` and `l_linger`, two u16 fields of a linger
l_onoff(l) == SubSeq(l, 1, 2)
l_linger(l) == SubSeq(l, 3, 4)

linger2dur(linger_opt) ==
    IF IsZero(l_onoff(linger_opt))
    THEN None
    ELSE Some(Duration(Cast(l_linger(linger_opt), U64Bytes), 0))

dur2linger(dur) ==
    IF dur.some
    THEN ToDigits(1, 2) \o Cast(as_secs(dur.val), 2)
    ELSE Zeros(2) \o Zeros(2)

linger == get_opt("linger", SOL_SOCKET, "SO_LINGER", CIntBytes, linger2dur)
set_linger(dur) == set_opt("set_linger", SOL_SOCKET, "SO_LINGER", dur, dur2linger(dur))

\* `size as c_int` for a usize: the low 32 bits
usize_as_c_int(size) == Cast(size, CIntBytes)
\* `raw as usize` for a c_int: sign-extended
c_int_as_usize(raw) ==
    [i \in 1..UsizeBytes |->
        IF i <= Len(raw) THEN raw[i]
        ELSE IF raw[Len(raw)] >= Base \div 2 THEN Base - 1 ELSE 0]

recv_buffer_size ==
    get_opt("recv_buffer_size", SOL_SOCKET, "SO_RCVBUF", CIntBytes, c_int_as_usize)
set_recv_buffer_size(size) ==
    set_opt("set_recv_buffer_size", SOL_SOCKET, "SO_RCVBUF", size,
            usize_as_c_int(size))

send_buffer_size ==
    get_opt("send_buffer_size", SOL_SOCKET, "SO_SNDBUF", CIntBytes, c_int_as_usize)
set_send_buffer_size(size) ==
    set_opt("set_send_buffer_size", SOL_SOCKET, "SO_SNDBUF", size,
            usize_as_c_int(size))

\* kernel: an operation in progress failed with code e
OsErrors == {10054, 10061}      \* WSAECONNRESET, WSAECONNREFUSED
OsFail(e) ==
    /\ sockopts' = [sockopts EXCEPT ![<<SOL_SOCKET, "SO_ERROR">>] =
                        ToDigits(e, CIntBytes)]
    /\ last' = [op |-> "fail", arg |-> e, ret |-> Ok(Unit)]
    /\ calls' = <<>>
    /\ taken' = <<>>
    /\ UNCHANGED <<tset, notOptVars>>

\* linger times: none, a second, and one past what a u16 holds
Lingers == {None, Timeout(1, 0), Timeout(65537, 0)}
\* buffer sizes: 4 KiB, and 2^31, which a c_int holds as a negative number
Sizes == {ToDigits(4096, UsizeBytes), <<0, 0, 0, 128, 0, 0, 0, 0>>}

NextGet ==
    \/ \E e \in OsErrors : OsFail(e)
    \/ take_error
    \/ \E dur \in Lingers : set_linger(dur)
    \/ \E size \in Sizes : set_recv_buffer_size(size)
    \/ \E size \in Sizes : set_send_buffer_size(size)
    \/ linger
    \/ recv_buffer_size
    \/ send_buffer_size
    \/ read_timeout
    \/ write_timeout
    \/ ttl
    \/ only_v6
    \/ nodelay
    \/ broadcast
    \/ multicast_loop_v4
    \/ multicast_ttl_v4
    \/ multicast_loop_v6
    \/ reuse_address

SpecGet == Init /\ [][NextGet]_vars

Pending == sockopts[<<SOL_SOCKET, "SO_ERROR">>]

\* C12: a take_error that succeeds returns None when no error is pending and
\* otherwise Some of the pending code, and leaves no error pending; so a
\* take_error that succeeds right after one that returned Some returns None.
C12_TakeErrorClears ==
    [][(last'.op = "take_error" /\ last'.ret.tag = "Ok")
          => /\ last'.ret.val = IF IsZero(Pending) THEN None
                                ELSE Some(last_error(Value(Pending)))
             /\ IsZero(Pending')
             /\ (last.op = "take_error" /\ last.ret.tag = "Ok" /\ last.ret.val.some)
                   => last'.ret.val = None
             /\ (Len(taken') = 2 /\ taken'[1].some) => taken'[2] = None]_vars

\* a pending connection reset was taken, and the take_error after it found
\* nothing
C12_Witness ==
    /\ last.op = "take_error"
    /\ last.ret = Ok(None)
    /\ taken = <<Some(last_error(10054)), None>>

BoolGetters ==
    {"only_v6", "nodelay", "broadcast", "multicast_loop_v4", "multicast_loop_v6",
     "reuse_address"}
OptionGetters ==
    BoolGetters \cup {"ttl", "multicast_ttl_v4", "read_timeout", "write_timeout",
                      "take_error", "linger", "recv_buffer_size",
                      "send_buffer_size"}

\* what the getter `op` makes of the stored value it read
GetterValue(op, raw) ==
    CASE op \in BoolGetters -> ~IsZero(raw)
      [] op \in {"ttl", "multicast_ttl_v4"} -> raw
      [] op \in {"read_timeout", "write_timeout"} -> ms2dur(raw)
      [] op = "take_error" -> take_error_match(raw)
      [] op = "linger" -> linger2dur(raw)
      [] op \in {"recv_buffer_size", "send_buffer_size"} -> c_int_as_usize(raw)

\* C13: every option getter issues one getsockopt call; when that call fails
\* the getter returns Err with the OS code, when it succeeds with a payload
\* length other than the size asked for the getter panics, and when it
\* succeeds with the size asked for the getter returns Ok of the stored value.
C13_GetterLengthAsserted ==
    [][last'.op \in OptionGetters
          => /\ Len(calls') = 1
             /\ calls'[1].call = "getsockopt"
             /\ LET c == calls'[1]
                IN  IF c.ret # 0 THEN last'.ret = Err(last_error(c.ret))
                    ELSE IF c.len # c.size THEN last'.ret = Panic
                    ELSE last'.ret
                            = Ok(GetterValue(last'.op, sockopts[<<c.opt, c.val>>]))]_vars

\* the OS answered a linger read with a one-byte payload and the getter
\* panicked
C13_Witness ==
    /\ last.op = "linger"
    /\ last.ret = Panic
    /\ calls[1].ret = 0
    /\ calls[1].len = 1
    /\ calls[1].size = CIntBytes

----------------------------------------------------------------------------
(* Socket::new called from several threads.  init() goes through a Once:   *)
(* the first caller runs the body while the Once is RUNNING, callers that  *)
(* arrive meanwhile wait, and call_once returns only once the Once is      *)
(* COMPLETE.  The body binds a throw-away UdpSocket, which makes libstd     *)
(* initialise winsock.  A thread is idle, at call_once, in the body, or at *)
(* the WSASocketW call.                                                    *)

\* a thread calls Socket::new and comes to init()
NewStart(t) ==
    /\ pc[t] = "idle"
    /\ pc' = [pc EXCEPT ![t] = "call_once"]
    /\ UNCHANGED <<once, last, calls, lifeVars, notThrVars>>

\* a Once without synchronisation: whoever finds it INCOMPLETE runs the body
call_once_racy(t) ==
    /\ pc[t] = "call_once"
    /\ pc' = [pc EXCEPT ![t] = IF once = "COMPLETE" THEN "WSASocketW" ELSE "body"]
    /\ UNCHANGED <<once, last, calls, lifeVars, notThrVars>>

\* INIT.call_once(..): entered by the first caller, passed once COMPLETE,
\* and no step while another thread runs the body
call_once(t) ==
    /\ pc[t] = "call_once"
    /\ once # "RUNNING"
    /\ IF once = "INCOMPLETE"
       THEN once' = "RUNNING" /\ pc' = [pc EXCEPT ![t] = "body"]
       ELSE once' = once /\ pc' = [pc EXCEPT ![t] = "WSASocketW"]
    /\ UNCHANGED <<last, calls, lifeVars, notThrVars>>

\* the body: net::UdpSocket::bind, its result dropped
OnceBody(t) ==
    /\ pc[t] = "body"
    /\ initRuns' = initRuns + 1
    /\ pc' = [pc EXCEPT ![t] = "body_done"]
    /\ UNCHANGED <<once, last, calls, handles, descs, objs, notThrVars>>

\* the body has returned: the Once is COMPLETE and call_once returns
OnceComplete(t) ==
    /\ pc[t] = "body_done"
    /\ once' = "COMPLETE"
    /\ pc' = [pc EXCEPT ![t] = "WSASocketW"]
    /\ UNCHANGED <<last, calls, lifeVars, notThrVars>>

\* the rest of Socket::new in thread t
NewSocket(t) ==
    /\ pc[t] = "WSASocketW"
    /\ \E os \in OsSocketResults, r \in OsHandleResults : new_socket(os, r)
    /\ pc' = [pc EXCEPT ![t] = "idle"]
    /\ UNCHANGED <<initRuns, once, notThrVars>>

NextInit ==
    \/ \E t \in Threads : NewStart(t)
    \/ \E t \in Threads : call_once(t)
    \/ \E t \in Threads : OnceBody(t)
    \/ \E t \in Threads : OnceComplete(t)
    \/ \E t \in Threads : NewSocket(t)

SpecInit == Init /\ [][NextInit]_vars

\* C14: the body of init's Once has run at most once, and whenever a thread
\* is at the WSASocketW call of Socket::new the body has run and the Once is
\* COMPLETE.
C14_InitOnce ==
    /\ initRuns <= 1
    /\ \A t \in Threads :
          pc[t] = "WSASocketW" => (once = "COMPLETE" /\ initRuns = 1)

\* two threads are at their WSASocketW calls together, before any socket
\* exists, and the body has run once
C14_Witness ==
    /\ \E t1, t2 \in Threads : t1 # t2 /\ pc[t1] = "WSASocketW" /\ pc[t2] = "WSASocketW"
    /\ handles = <<>>
    /\ initRuns = 1

----------------------------------------------------------------------------
(* What new, accept and try_clone hand back.                               *)

IsCreation(op) == op \in {"new", "accept", "try_clone"}
OpenDescs == {d \in 1..Len(descs) : descs[d].open}

\* C15: the handle that new, accept or try_clone returned as Ok owns a
\* descriptor whose inherit flag is cleared.
C15_ReturnedNotInheritable ==
    (IsCreation(last.op) /\ last.ret.tag = "Ok")
        => /\ handles[last.ret.val].type = "Socket"
           /\ ~descs[handles[last.ret.val].socket].inherit

\* a clone was returned: its descriptor is open, new and not inheritable
C15_Witness ==
    /\ last.op = "try_clone"
    /\ last.ret.tag = "Ok"
    /\ handles[last.ret.val].socket = Len(descs)
    /\ descs[Len(descs)].open
    /\ ~descs[Len(descs)].inherit
    /\ handles[last.ret.val].socket # handles[last.arg].socket

\* C17: when new, accept or try_clone returns Err, the open descriptors are
\* those open before the call; a descriptor the call obtained has been
\* closed exactly once; every earlier descriptor is as it was; and the
\* underlying sockets have the open descriptors they had, a socket the call
\* created being released.
C17_NoLeakOnError ==
    [][(IsCreation(last'.op) /\ last'.ret.tag = "Err")
          => /\ OpenDescs' = OpenDescs
             /\ \A d \in 1..Len(descs') :
                   IF d <= Len(descs) THEN descs'[d] = descs[d]
                   ELSE ~descs'[d].open /\ descs'[d].closes = 1
             /\ \A o \in 1..Len(objs') :
                   IF o <= Len(objs) THEN objs'[o] = objs[o]
                   ELSE objs'[o].released /\ objs'[o].refs = 0
             /\ \A h \in 1..Len(handles') :
                   IF h <= Len(handles) THEN handles'[h] = handles[h]
                   ELSE handles'[h].state = "dropped"]_vars

\* accept obtained a descriptor, cleared its inherit flag, failed to decode
\* the peer's address, and returned the error with the descriptor closed
C17_Witness ==
    /\ last.op = "accept"
    /\ last.ret = Err(InvalidInput)
    /\ ~descs[Len(descs)].open
    /\ ~descs[Len(descs)].inherit
    /\ descs[Len(descs)].closes = 1
    /\ handles[Len(handles)] = Handle("Socket", Len(descs), "dropped")
    /\ OpenDescs # {}

----------------------------------------------------------------------------
(* Sending.  The OS takes some of the bytes offered, at most the length    *)
(* passed, or fails.                                                       *)

OsSendErrors == {10035, 10054}      \* WSAEWOULDBLOCK, WSAECONNRESET
OsSendOutcomes(len) ==
    {[n |-> SOCKET_ERROR, err |-> e] : e \in OsSendErrors}
        \cup {[n |-> n, err |-> 0] : n \in 0..len}

\* the test of the return value in send and send_to
send_match(os) ==
    IF os.n = SOCKET_ERROR THEN Err(last_error(os.err)) ELSE Ok(os.n)

\* the buffers sent: up to MaxBuf bytes
SendBufs == UNION {[1..n -> {1, 2}] : n \in 0..MaxBuf}
\* the destinations of send_to
SendTos ==
    {SocketAddrV4(Ipv4Addr_new(127, 0, 0, 1), <<2, 1>>),
     SocketAddrV4(Ipv4Addr_new(10, 0, 0, 255), <<0, 80>>),
     SocketAddrV6(Ones(16), <<2, 1>>, <<1, 2, 3, 4>>, Zeros(4)),
     SocketAddrV6(Zeros(15) \o <<1>>, <<0, 80>>, Zeros(4), <<5, 0, 0, 0>>)}

\* a send that goes on until the buffer is sent
send_retrying ==
    \E buf \in SendBufs :
        \E os1 \in OsSendOutcomes(clamp(Len(buf))) :
            \E os2 \in OsSendOutcomes(clamp(Len(buf))) :
                LET c1 == [call |-> "send", buf |-> buf, len |-> clamp(Len(buf)),
                           flags |-> 0, ret |-> os1.n, err |-> os1.err]
                    rest == SubSeq(buf, os1.n + 1, Len(buf))
                    c2 == [call |-> "send", buf |-> rest, len |-> clamp(Len(rest)),
                           flags |-> 0, ret |-> os2.n, err |-> os2.err]
                    again == os1.n # SOCKET_ERROR /\ os1.n < Len(buf)
                IN  /\ last' = [op |-> "send", arg |-> [buf |-> buf, addr |-> None],
                                ret |-> IF ~again THEN send_match(os1)
                                        ELSE IF os2.n = SOCKET_ERROR THEN send_match(os2)
                                        ELSE Ok(os1.n + os2.n)]
                    /\ calls' = IF again THEN <<c1, c2>> ELSE <<c1>>
                    /\ UNCHANGED stateVars

\* Socket::send: one ws2_32::send call
send ==
    \E buf \in SendBufs :
        \E os \in OsSendOutcomes(clamp(Len(buf))) :
            /\ last' = [op |-> "send", arg |-> [buf |-> buf, addr |-> None],
                        ret |-> send_match(os)]
            /\ calls' = <<[call |-> "send", buf |-> buf, len |-> clamp(Len(buf)),
                           flags |-> 0, ret |-> os.n, err |-> os.err]>>
            /\ UNCHANGED stateVars

\* Socket::send_to: addr2raw, then one ws2_32::sendto call
send_to ==
    \E buf \in SendBufs, a \in SendTos :
        \E os \in OsSendOutcomes(clamp(Len(buf))) :
            /\ last' = [op |-> "send_to", arg |-> [buf |-> buf, addr |-> Some(a)],
                        ret |-> send_match(os)]
            /\ calls' = <<[call |-> "sendto", buf |-> buf, len |-> clamp(Len(buf)),
                           flags |-> 0, to |-> addr2raw(a).bytes,
                           tolen |-> addr2raw(a).len,
                           ret |-> os.n, err |-> os.err]>>
            /\ UNCHANGED stateVars

NextSend == send \/ send_to

SpecSend == Init /\ [][NextSend]_vars

IsSend(op) == op \in {"send", "send_to"}

\* C16: send and send_to make exactly one OS call, send or sendto, offering
\* the whole buffer; they return Ok of the count the OS accepted, which is
\* at most the buffer length, or Err of the OS error, and make no further
\* call.
C16_SendOnce ==
    IsSend(last.op)
        => /\ Len(calls) = 1
           /\ calls[1].call = (IF last.op = "send" THEN "send" ELSE "sendto")
           /\ calls[1].buf = last.arg.buf
           /\ calls[1].len = Len(last.arg.buf)
           /\ IF calls[1].ret = SOCKET_ERROR
              THEN last.ret = Err(last_error(calls[1].err))
              ELSE /\ last.ret = Ok(calls[1].ret)
                   /\ last.ret.val <= Len(last.arg.buf)

\* the OS took one byte of two: send returned Ok(1) after its one call
C16_Witness ==
    /\ last.op = "send"
    /\ Len(last.arg.buf) = 2
    /\ last.ret = Ok(1)
    /\ Len(calls) = 1

----------------------------------------------------------------------------
(* Multicast memberships.  An ip_mreq is the group's and the interface's   *)
(* address, four bytes each in network order; an ipv6_mreq is the group's  *)
(* sixteen bytes and the interface index, a u32 in host order.             *)

\* to_s_addr: the octets packed into a ULONG, most significant first, then
\* hton
to_s_addr(a) == hton(<<a[4], a[3], a[2], a[1]>>)

\* to_in6_addr: a zeroed in6_addr with s6_addr = addr.octets()
to_in6_addr(a) == [i \in 1..16 |-> a[i]]

ip_mreq(multiaddr, interface) == to_s_addr(multiaddr) \o to_s_addr(interface)
ipv6_mreq(multiaddr, interface) == to_in6_addr(multiaddr) \o interface

\* self.setsockopt(opt, val, mreq) of a join or leave called with arg
set_membership(op, opt, val, arg, mreq) ==
    \E os \in OsOptResults :
        LET r == setsockopt(sockopts, opt, val, mreq, os)
        IN  /\ last' = [op |-> op, arg |-> arg, ret |-> r.ret]
            /\ calls' = r.calls
            /\ sockopts' = r.opts
            /\ UNCHANGED <<tset, taken, notOptVars>>

join_multicast_v4(multiaddr, interface) ==
    set_membership("join_multicast_v4", IPPROTO_IP, "IP_ADD_MEMBERSHIP",
                   <<multiaddr, interface>>, ip_mreq(multiaddr, interface))

join_multicast_v6(multiaddr, interface) ==
    set_membership("join_multicast_v6", IPPROTO_IP, "IPV6_ADD_MEMBERSHIP",
                   <<multiaddr, interface>>, ipv6_mreq(multiaddr, interface))

leave_multicast_v4(multiaddr, interface) ==
    set_membership("leave_multicast_v4", IPPROTO_IP, "IP_DROP_MEMBERSHIP",
                   <<multiaddr, interface>>, ip_mreq(multiaddr, interface))

leave_multicast_v6(multiaddr, interface) ==
    set_membership("leave_multicast_v6", IPPROTO_IP, "IPV6_DROP_MEMBERSHIP",
                   <<multiaddr, interface>>, ipv6_mreq(multiaddr, interface))

\* groups and interfaces: 224.0.0.1 and 239.255.255.250 on any interface or
\* on 10.0.0.255; ff02::1 and ff02::fb on interface 0 or 5
Groups4 == {Ipv4Addr_new(224, 0, 0, 1), Ipv4Addr_new(239, 255, 255, 250)}
Interfaces4 == {Ipv4Addr_new(0, 0, 0, 0), Ipv4Addr_new(10, 0, 0, 255)}
Groups6 == {<<255, 2>> \o Zeros(13) \o <<1>>, <<255, 2>> \o Zeros(13) \o <<251>>}
Interfaces6 == {ToDigits(0, DwordBytes), ToDigits(5, DwordBytes)}

NextMulticast ==
    \/ \E m \in Groups4, i \in Interfaces4 : join_multicast_v4(m, i)
    \/ \E m \in Groups6, i \in Interfaces6 : join_multicast_v6(m, i)
    \/ \E m \in Groups4, i \in Interfaces4 : leave_multicast_v4(m, i)
    \/ \E m \in Groups6, i \in Interfaces6 : leave_multicast_v6(m, i)

SpecMulticast == Init /\ [][NextMulticast]_vars

\* the call `op` made is setsockopt(opt, val, mreq), and when it succeeded
\* mreq is among the memberships at level opt if and only if `op` joins
MembershipVia(opt, val, mreq, joins) ==
    /\ Len(calls) = 1
    /\ calls[1].call = "setsockopt"
    /\ calls[1].opt = opt
    /\ calls[1].val = val
    /\ calls[1].payload = mreq
    /\ last.ret.tag = "Ok" => ((mreq \in sockopts[<<opt, "memberships">>]) = joins)

\* C18: join_multicast_v4 and leave_multicast_v4 pass the ip_mreq with
\* IP_ADD_MEMBERSHIP and IP_DROP_MEMBERSHIP at level IPPROTO_IP, and
\* join_multicast_v6 and leave_multicast_v6 pass the ipv6_mreq with
\* IPV6_ADD_MEMBERSHIP and IPV6_DROP_MEMBERSHIP at level IPPROTO_IPV6; after
\* a successful join the request is among the level's memberships, and after
\* a successful leave it is not.
C18_MulticastAtOwnLevel ==
    /\ last.op = "join_multicast_v4"
          => MembershipVia(IPPROTO_IP, "IP_ADD_MEMBERSHIP",
                           last.arg[1] \o last.arg[2], TRUE)
    /\ last.op = "leave_multicast_v4"
          => MembershipVia(IPPROTO_IP, "IP_DROP_MEMBERSHIP",
                           last.arg[1] \o last.arg[2], FALSE)
    /\ last.op = "join_multicast_v6"
          => MembershipVia(IPPROTO_IPV6, "IPV6_ADD_MEMBERSHIP",
                           last.arg[1] \o last.arg[2], TRUE)
    /\ last.op = "leave_multicast_v6"
          => MembershipVia(IPPROTO_IPV6, "IPV6_DROP_MEMBERSHIP",
                           last.arg[1] \o last.arg[2], FALSE)

====
